---- MODULE Spec2Model ----
(***************************************************************************)
(* Mergington High School activities API (src/src/app.py, database.py,     *)
(* models.py): the relational store (Activity and Participant tables), the *)
(* startup seeding and the three request handlers, each handler split at   *)
(* its database statements so that requests can interleave.                *)
(*                                                                         *)
(* A Participant row is modelled by its primary key id, email and          *)
(* activity_name.  The code never reads an id; it only serves to tell two  *)
(* rows with the same (email, activity_name) apart, so ids are allocated   *)
(* per pair (smallest free one).  registered_at is never read and is left  *)
(* out.                                                                    *)
(***************************************************************************)
EXTENDS Naturals, Integers, Sequences, FiniteSets, Bags, TLC

VARIABLES activities, participants, sessions, req, started, before, last

vars == <<activities, participants, sessions, req, started, before, last>>

\* what the one-request-at-a-time specification remembers: the store when the
\* request being served arrived, and the operation that ended before it
hist == <<before, last>>

(***************************************************************************)
(* Bounds of the model.                                                    *)
(***************************************************************************)
\* number of students (beyond the seeded ones) who send requests
MaxStudents == 9
\* number of requests the server works on at the same time
MaxInFlight == 2

StudentPool ==
    << "student01@mergington.edu", "student02@mergington.edu",
       "student03@mergington.edu", "student04@mergington.edu",
       "student05@mergington.edu", "student06@mergington.edu",
       "student07@mergington.edu", "student08@mergington.edu",
       "student09@mergington.edu", "student10@mergington.edu",
       "student11@mergington.edu", "student12@mergington.edu" >>

Slots == 1..MaxInFlight

(***************************************************************************)
(* HTTP status codes and error details used by the handlers.               *)
(***************************************************************************)
StatusOk == 200
StatusBadRequest == 400
StatusNotFound == 404

ActivityNotFound == <<"Activity not found">>
AlreadySignedUp == <<"Student is already signed up">>
ActivityFull == <<"Activity is full">>
NotSignedUp == <<"Student is not signed up for this activity">>

SignedUpMessage(email, activity_name) ==
    <<"Signed up ", email, " for ", activity_name>>

UnregisteredMessage(email, activity_name) ==
    <<"Unregistered ", email, " from ", activity_name>>

(***************************************************************************)
(* models.py                                                               *)
(***************************************************************************)
Activity(name, description, schedule, max_participants) ==
    [name |-> name, description |-> description, schedule |-> schedule,
     max_participants |-> max_participants]

Participant(id, email, activity_name) ==
    [id |-> id, email |-> email, activity_name |-> activity_name]

(***************************************************************************)
(* seed_initial_data: the literal catalog, in insertion order.             *)
(***************************************************************************)
initial_activities ==
    << Activity("Chess Club",
                "Learn strategies and compete in chess tournaments",
                "Fridays, 3:30 PM - 5:00 PM", 12),
       Activity("Programming Class",
                "Learn programming fundamentals and build software projects",
                "Tuesdays and Thursdays, 3:30 PM - 4:30 PM", 20),
       Activity("Gym Class",
                "Physical education and sports activities",
                "Mondays, Wednesdays, Fridays, 2:00 PM - 3:00 PM", 30),
       Activity("Soccer Team",
                "Join the school soccer team and compete in matches",
                "Tuesdays and Thursdays, 4:00 PM - 5:30 PM", 22),
       Activity("Basketball Team",
                "Practice and play basketball with the school team",
                "Wednesdays and Fridays, 3:30 PM - 5:00 PM", 15),
       Activity("Art Club",
                "Explore your creativity through painting and drawing",
                "Thursdays, 3:30 PM - 5:00 PM", 15),
       Activity("Drama Club",
                "Act, direct, and produce plays and performances",
                "Mondays and Wednesdays, 4:00 PM - 5:30 PM", 20),
       Activity("Math Club",
                "Solve challenging problems and participate in math competitions",
                "Tuesdays, 3:30 PM - 4:30 PM", 10),
       Activity("Debate Team",
                "Develop public speaking and argumentation skills",
                "Fridays, 4:00 PM - 5:30 PM", 12) >>

initial_participants ==
    << <<"michael@mergington.edu", "Chess Club">>,
       <<"daniel@mergington.edu", "Chess Club">>,
       <<"emma@mergington.edu", "Programming Class">>,
       <<"sophia@mergington.edu", "Programming Class">>,
       <<"john@mergington.edu", "Gym Class">>,
       <<"olivia@mergington.edu", "Gym Class">>,
       <<"liam@mergington.edu", "Soccer Team">>,
       <<"noah@mergington.edu", "Soccer Team">>,
       <<"ava@mergington.edu", "Basketball Team">>,
       <<"mia@mergington.edu", "Basketball Team">>,
       <<"amelia@mergington.edu", "Art Club">>,
       <<"harper@mergington.edu", "Art Club">>,
       <<"ella@mergington.edu", "Drama Club">>,
       <<"scarlett@mergington.edu", "Drama Club">>,
       <<"james@mergington.edu", "Math Club">>,
       <<"benjamin@mergington.edu", "Math Club">>,
       <<"charlotte@mergington.edu", "Debate Team">>,
       <<"henry@mergington.edu", "Debate Team">> >>

(***************************************************************************)
(* Queries on the store.                                                   *)
(***************************************************************************)
\* select(Participant).where(activity_name == ..., email == ...)
SelectSignup(rows, activity_name, email) ==
    {p \in rows : p.activity_name = activity_name /\ p.email = email}

\* SelectParticipants without its where clause
SelectParticipantsAnyActivity(rows, activity_name) == rows

\* select(Participant).where(activity_name == ...)
SelectParticipants(rows, activity_name) ==
    {p \in rows : p.activity_name = activity_name}

\* session.get(Activity, activity_name): <<>> when there is no such row
GetActivity(acts, activity_name) ==
    IF \E a \in acts : a.name = activity_name
    THEN <<CHOOSE a \in acts : a.name = activity_name>>
    ELSE <<>>

\* the primary key the store gives a new Participant row
NewId(rows, activity_name, email) ==
    LET used == {p.id : p \in SelectSignup(rows, activity_name, email)}
    IN  CHOOSE i \in 1..(Cardinality(used) + 1) :
            i \notin used /\ \A j \in 1..(i - 1) : j \in used

\* AddParticipant with the row never written
AddParticipantNotWritten(rows, activity_name, email) == rows

\* session.add(Participant(email, activity_name)); session.commit()
AddParticipant(rows, activity_name, email) ==
    rows \cup {Participant(NewId(rows, activity_name, email), email, activity_name)}

\* [p.email for p in participants]: the order of the rows is not specified,
\* so the list is kept as a bag of emails
Emails(rows) ==
    LET es == {p.email : p \in rows}
    IN  [e \in es |-> Cardinality({p \in rows : p.email = e})]

(***************************************************************************)
(* seed_initial_data, on_startup                                           *)
(***************************************************************************)
RECURSIVE AddAll(_, _, _)
\* for participant in initial_participants: session.add(participant)
AddAll(rows, list, i) ==
    IF i > Len(list) THEN rows
    ELSE AddAll(AddParticipant(rows, list[i][2], list[i][1]), list, i + 1)

\* seed_initial_data without the check for an empty Activity table
seed_initial_data_unchecked(acts, rows) ==
    [activities |-> acts \cup {initial_activities[i] : i \in DOMAIN initial_activities},
     participants |-> AddAll(rows, initial_participants, 1)]

\* the store seed_initial_data leaves behind
seed_initial_data(acts, rows) ==
    IF acts # {}
    THEN [activities |-> acts, participants |-> rows]
    ELSE [activities |-> {initial_activities[i] : i \in DOMAIN initial_activities},
          participants |-> AddAll(rows, initial_participants, 1)]

InFlight(r) == req[r].pc # "idle"

NoRequest ==
    [pc |-> "idle", op |-> "none", activity_name |-> "", email |-> "",
     session |-> 0, activity |-> <<>>, participants_count |-> 0,
     participant |-> <<>>,
     activities_list |-> <<>>, result |-> {}, status |-> 0, body |-> <<>>]

\* a process start (the first one, or a restart on the same database file,
\* which happens while no request is being served): init_db() creates the
\* missing tables and changes no row, then seed_initial_data() runs
on_startup ==
    /\ \A r \in Slots : ~InFlight(r)
    /\ LET seeded == seed_initial_data(activities, participants)
       IN  /\ activities' = seeded.activities
           /\ participants' = seeded.participants
    /\ started' = TRUE
    /\ UNCHANGED <<sessions, req>>

(***************************************************************************)
(* database.py: get_session                                                *)
(***************************************************************************)
\* Session(engine): a session object no request holds yet
NewSession(open) ==
    CHOOSE s \in 1..(Cardinality(open) + 1) :
        s \notin open /\ \A t \in 1..(s - 1) : t \in open

\* CloseSession with the session left open
CloseSessionLeaked(open, s) == open

\* leaving the with block of get_session closes the session
CloseSession(open, s) == open \ {s}

FirstStep(op) ==
    IF op = "list" THEN "activities_list" ELSE "get_activity"

\* a request arrives in slot r: Depends(get_session) opens the session the
\* handler is called with
get_session(r, op, activity_name, email) ==
    /\ started
    /\ ~InFlight(r)
    /\ LET s == NewSession(sessions)
       IN  /\ sessions' = sessions \cup {s}
           /\ req' = [req EXCEPT ![r] =
                  [NoRequest EXCEPT
                      !.pc = FirstStep(op), !.op = op,
                      !.activity_name = activity_name, !.email = email,
                      !.session = s]]
    /\ UNCHANGED <<activities, participants, started>>

\* the handler has returned or raised: get_session resumes after its yield
\* and leaves the with block; the request is over
get_session_exit(r) ==
    /\ req[r].pc = "exit"
    /\ sessions' = CloseSession(sessions, req[r].session)
    /\ req' = [req EXCEPT ![r] = NoRequest]
    /\ UNCHANGED <<activities, participants, started>>

\* raise HTTPException(status_code, detail) / return {"message": ...}
Respond(r, status, body) ==
    [req[r] EXCEPT !.pc = "exit", !.status = status, !.body = body]

(***************************************************************************)
(* app.py: signup_for_activity                                             *)
(***************************************************************************)
signup_get_activity(r) ==
    /\ req[r].op = "signup" /\ req[r].pc = "get_activity"
    /\ LET activity == GetActivity(activities, req[r].activity_name)
       IN  req' = [req EXCEPT ![r] =
                  IF activity = <<>>
                  THEN Respond(r, StatusNotFound, ActivityNotFound)
                  ELSE [req[r] EXCEPT !.pc = "existing_signup",
                                      !.activity = activity]]
    /\ UNCHANGED <<activities, participants, sessions, started, hist>>

\* signup_existing_signup with the capacity check made first
signup_existing_signup_after_count(r) ==
    /\ req[r].op = "signup" /\ req[r].pc = "existing_signup"
    /\ LET existing_signup ==
               SelectSignup(participants, req[r].activity_name, req[r].email)
           participants_count ==
               {p \in participants : p.activity_name = req[r].activity_name}
       IN  req' = [req EXCEPT ![r] =
                  IF Cardinality(participants_count)
                        >= req[r].activity[1].max_participants
                  THEN Respond(r, StatusBadRequest, ActivityFull)
                  ELSE IF existing_signup # {}
                  THEN Respond(r, StatusBadRequest, AlreadySignedUp)
                  ELSE [req[r] EXCEPT !.pc = "participants_count"]]
    /\ UNCHANGED <<activities, participants, sessions, started, hist>>

signup_existing_signup(r) ==
    /\ req[r].op = "signup" /\ req[r].pc = "existing_signup"
    /\ LET existing_signup ==
               SelectSignup(participants, req[r].activity_name, req[r].email)
       IN  req' = [req EXCEPT ![r] =
                  IF existing_signup # {}
                  THEN Respond(r, StatusBadRequest, AlreadySignedUp)
                  ELSE [req[r] EXCEPT !.pc = "participants_count"]]
    /\ UNCHANGED <<activities, participants, sessions, started, hist>>

\* IsFull when the capacity check is left out
IsFullNever(participants_count, max_participants) == FALSE

\* IsFull with > for >=
IsFullOffByOne(participants_count, max_participants) ==
    participants_count > max_participants

\* len(participants_count) >= activity.max_participants
IsFull(participants_count, max_participants) ==
    participants_count >= max_participants

signup_participants_count(r) ==
    /\ req[r].op = "signup" /\ req[r].pc = "participants_count"
    /\ LET participants_count ==
               SelectParticipants(participants, req[r].activity_name)
           read == [req[r] EXCEPT
                        !.participants_count = Cardinality(participants_count)]
       IN  req' = [req EXCEPT ![r] =
                  IF IsFull(read.participants_count,
                            req[r].activity[1].max_participants)
                  THEN [read EXCEPT !.pc = "exit",
                                    !.status = StatusBadRequest,
                                    !.body = ActivityFull]
                  ELSE [read EXCEPT !.pc = "add_commit"]]
    /\ UNCHANGED <<activities, participants, sessions, started, hist>>

\* signup_add_commit with the capacity checked again at the insert
signup_add_commit_rechecked(r) ==
    /\ req[r].op = "signup" /\ req[r].pc = "add_commit"
    /\ LET full == Cardinality({p \in participants :
                                   p.activity_name = req[r].activity_name})
                      >= req[r].activity[1].max_participants
       IN  /\ participants' =
                  IF full THEN participants
                  ELSE participants \cup
                          {Participant(NewId(participants, req[r].activity_name,
                                             req[r].email),
                                       req[r].email, req[r].activity_name)}
           /\ req' = [req EXCEPT ![r] =
                  IF full THEN Respond(r, StatusBadRequest, ActivityFull)
                  ELSE Respond(r, StatusOk,
                               SignedUpMessage(req[r].email, req[r].activity_name))]
    /\ UNCHANGED <<activities, sessions, started, hist>>

signup_add_commit(r) ==
    /\ req[r].op = "signup" /\ req[r].pc = "add_commit"
    /\ participants' =
           AddParticipant(participants, req[r].activity_name, req[r].email)
    /\ req' = [req EXCEPT ![r] =
           Respond(r, StatusOk,
                   SignedUpMessage(req[r].email, req[r].activity_name))]
    /\ UNCHANGED <<activities, sessions, started, hist>>

signup_for_activity(r) ==
    \/ signup_get_activity(r)
    \/ signup_existing_signup(r)
    \/ signup_participants_count(r)
    \/ signup_add_commit(r)

(***************************************************************************)
(* app.py: unregister_from_activity                                        *)
(***************************************************************************)
\* unregister_get_activity without the check that the activity is there
unregister_get_activity_unchecked(r) ==
    /\ req[r].op = "unregister" /\ req[r].pc = "get_activity"
    /\ req' = [req EXCEPT ![r].pc = "find_participant",
                          ![r].activity = GetActivity(activities,
                                                      req[r].activity_name)]
    /\ UNCHANGED <<activities, participants, sessions, started, hist>>

unregister_get_activity(r) ==
    /\ req[r].op = "unregister" /\ req[r].pc = "get_activity"
    /\ LET activity == GetActivity(activities, req[r].activity_name)
       IN  req' = [req EXCEPT ![r] =
                  IF activity = <<>>
                  THEN Respond(r, StatusNotFound, ActivityNotFound)
                  ELSE [req[r] EXCEPT !.pc = "find_participant",
                                      !.activity = activity]]
    /\ UNCHANGED <<activities, participants, sessions, started, hist>>

\* .first() without ORDER BY returns any one of the matching rows
unregister_find_participant(r) ==
    /\ req[r].op = "unregister" /\ req[r].pc = "find_participant"
    /\ LET found ==
               SelectSignup(participants, req[r].activity_name, req[r].email)
       IN  IF found = {}
           THEN req' = [req EXCEPT ![r] =
                           Respond(r, StatusBadRequest, NotSignedUp)]
           ELSE \E participant \in found :
                    req' = [req EXCEPT ![r].pc = "delete_commit",
                                       ![r].participant = <<participant>>]
    /\ UNCHANGED <<activities, participants, sessions, started, hist>>

\* unregister_delete_commit with the delete never committed
unregister_delete_uncommitted(r) ==
    /\ req[r].op = "unregister" /\ req[r].pc = "delete_commit"
    /\ req' = [req EXCEPT ![r] =
           Respond(r, StatusOk,
                   UnregisteredMessage(req[r].email, req[r].activity_name))]
    /\ UNCHANGED <<activities, participants, sessions, started, hist>>

\* session.delete(participant); session.commit(): a DELETE by primary key,
\* which removes nothing when the row is already gone
unregister_delete_commit(r) ==
    /\ req[r].op = "unregister" /\ req[r].pc = "delete_commit"
    /\ participants' = participants \ {req[r].participant[1]}
    /\ req' = [req EXCEPT ![r] =
           Respond(r, StatusOk,
                   UnregisteredMessage(req[r].email, req[r].activity_name))]
    /\ UNCHANGED <<activities, sessions, started, hist>>

unregister_from_activity(r) ==
    \/ unregister_get_activity(r)
    \/ unregister_find_participant(r)
    \/ unregister_delete_commit(r)

(***************************************************************************)
(* app.py: get_activities                                                  *)
(***************************************************************************)
\* select(Activity).all(), in the order the rows were inserted
SelectActivities(acts) ==
    SelectSeq(initial_activities, LAMBDA a : a \in acts)

\* result[activity.name] = {...}
ListingEntry(activity, rows) ==
    [name |-> activity.name,
     description |-> activity.description,
     schedule |-> activity.schedule,
     max_participants |-> activity.max_participants,
     participants |-> Emails(SelectParticipants(rows, activity.name))]

get_activities_list(r) ==
    /\ req[r].op = "list" /\ req[r].pc = "activities_list"
    /\ LET activities_list == SelectActivities(activities)
       IN  req' = [req EXCEPT ![r] =
                  IF activities_list = <<>>
                  THEN Respond(r, StatusOk, <<>>)
                  ELSE [req[r] EXCEPT !.pc = "participants_query",
                                      !.activities_list = activities_list]]
    /\ UNCHANGED <<activities, participants, sessions, started, hist>>

\* one turn of the loop over activities_list; the handler returns result
\* when the loop is over
get_activities_participants(r) ==
    /\ req[r].op = "list" /\ req[r].pc = "participants_query"
    /\ LET activity == Head(req[r].activities_list)
           rest == Tail(req[r].activities_list)
           result == req[r].result \cup {ListingEntry(activity, participants)}
       IN  req' = [req EXCEPT ![r] =
                  IF rest = <<>>
                  THEN [Respond(r, StatusOk, <<>>) EXCEPT
                           !.activities_list = rest, !.result = result]
                  ELSE [req[r] EXCEPT !.activities_list = rest,
                                      !.result = result]]
    /\ UNCHANGED <<activities, participants, sessions, started, hist>>

get_activities(r) ==
    \/ get_activities_list(r)
    \/ get_activities_participants(r)

\* the whole listing of a store, as get_activities builds it when no other
\* request runs meanwhile
Listing(acts, rows) == {ListingEntry(a, rows) : a \in acts}

(***************************************************************************)
(* Specifications.                                                         *)
(***************************************************************************)
\* the smallest activity of the catalog
MathClub == "Math Club"
ChessClub == "Chess Club"
\* a name no Activity row has
KnittingClub == "Knitting Club"
James == "james@mergington.edu"

NoStore == [activities |-> {}, participants |-> {}]

Ended(op, activity_name, email, status, body) ==
    [op |-> op, activity_name |-> activity_name, email |-> email,
     status |-> status, body |-> body]

\* a new process on a new database file
Init ==
    /\ activities = {}
    /\ participants = {}
    /\ sessions = {}
    /\ req = [r \in Slots |-> NoRequest]
    /\ started = FALSE
    /\ before = NoStore
    /\ last = Ended("none", "", "", 0, <<>>)

\* The handlers compare emails and do nothing else with them, so the students
\* of the pool are interchangeable: the one who signs up next is the first of
\* the pool who is not a Math Club member, and the one who leaves is the last
\* who is.  The members of the pool are then always its first k students.
StudentMembers ==
    {i \in 1..MaxStudents :
        SelectSignup(participants, MathClub, StudentPool[i]) # {}}

NextStudent ==
    LET k == Cardinality(StudentMembers)
    IN  IF k < MaxStudents THEN {StudentPool[k + 1]} ELSE {}

LastStudent ==
    LET k == Cardinality(StudentMembers)
    IN  IF k > 0 THEN {StudentPool[k]} ELSE {}

\* the requests of the one-request-at-a-time specification: for the Math
\* Club a student who is a member, one who is not and a seeded member; one
\* student for the Chess Club; and an activity that is not there
SeqInputs ==
    ({MathClub} \X (NextStudent \cup LastStudent \cup {James}))
    \cup {<<ChessClub, StudentPool[1]>>, <<KnittingClub, StudentPool[1]>>,
          <<KnittingClub, James>>}

Idle == \A r \in Slots : ~InFlight(r)

SeqStartup ==
    /\ on_startup
    /\ last' = Ended("startup", "", "", 0, <<>>)
    /\ before' = [activities |-> activities, participants |-> participants]

SeqArrive(op, activity_name, email) ==
    /\ Idle
    /\ get_session(1, op, activity_name, email)
    /\ before' = [activities |-> activities, participants |-> participants]
    /\ UNCHANGED last

SeqLeave ==
    /\ get_session_exit(1)
    /\ last' = Ended(req[1].op, req[1].activity_name, req[1].email,
                     req[1].status, req[1].body)
    /\ UNCHANGED before

\* requests are served one at a time, each to its end before the next
SeqNext ==
    \/ SeqStartup
    \/ \E i \in SeqInputs, op \in {"signup", "unregister"} :
           SeqArrive(op, i[1], i[2])
    \/ SeqArrive("list", "", "")
    \/ signup_for_activity(1)
    \/ unregister_from_activity(1)
    \/ get_activities(1)
    \/ SeqLeave

SeqSpec == Init /\ [][SeqNext]_vars

MaxParticipants(activity_name) ==
    GetActivity(seed_initial_data({}, {}).activities,
                activity_name)[1].max_participants

\* A database file earlier runs have left behind: the seeded store plus the
\* first students of the pool signed up for the Math Club until one seat is
\* left (SeqSpec reaches this store: PersistedStore).
PersistedParticipants ==
    LET seeded == seed_initial_data({}, {}).participants
        members == Cardinality(SelectParticipants(seeded, MathClub))
    IN  seeded \cup {Participant(1, StudentPool[i], MathClub) :
                        i \in 1..(MaxParticipants(MathClub) - 1 - members)}

\* a new process on that database file
PersistedInit ==
    /\ activities = seed_initial_data({}, {}).activities
    /\ participants = PersistedParticipants
    /\ sessions = {}
    /\ req = [r \in Slots |-> NoRequest]
    /\ started = FALSE
    /\ before = NoStore
    /\ last = Ended("none", "", "", 0, <<>>)

\* the two students of the pool who come next
Newcomer == StudentPool[MaxParticipants(MathClub) - 2]
Rival == StudentPool[MaxParticipants(MathClub) - 1]

\* the requests of the concurrent specification
Inputs ==
    {<<"signup", MathClub, Newcomer>>, <<"signup", MathClub, Rival>>,
     <<"unregister", MathClub, Newcomer>>,
     <<"signup", KnittingClub, Newcomer>>, <<"list", "", "">>}

\* a request is taken by the first worker that is free
FreeSlot(r) == ~InFlight(r) /\ \A q \in 1..(r - 1) : InFlight(q)

\* up to MaxInFlight requests at a time, their steps interleaved
Next ==
    \/ on_startup /\ UNCHANGED hist
    \/ \E r \in Slots, i \in Inputs :
           FreeSlot(r) /\ get_session(r, i[1], i[2], i[3]) /\ UNCHANGED hist
    \/ \E r \in Slots : signup_for_activity(r)
    \/ \E r \in Slots : unregister_from_activity(r)
    \/ \E r \in Slots : get_activities(r)
    \/ \E r \in Slots : get_session_exit(r) /\ UNCHANGED hist

Spec == PersistedInit /\ [][Next]_vars

\* the store of PersistedInit, which SeqSpec reaches from a new database file
PersistedStore ==
    /\ activities = seed_initial_data({}, {}).activities
    /\ participants = PersistedParticipants

(***************************************************************************)
(* Properties.  Under SeqSpec a request in slot 1 that has reached "exit"  *)
(* has returned or raised; before is the store it arrived at.              *)
(***************************************************************************)
Count(rows, activity_name) ==
    Cardinality(SelectParticipants(rows, activity_name))

Exists(acts, activity_name) == GetActivity(acts, activity_name) # <<>>

Capacity(acts, activity_name) ==
    GetActivity(acts, activity_name)[1].max_participants

Registered(rows, activity_name, email) ==
    SelectSignup(rows, activity_name, email) # {}

\* the participants list a listing of the store shows for the activity
Listed(acts, rows, activity_name) ==
    (CHOOSE entry \in Listing(acts, rows) : entry.name = activity_name).participants

Answered(op) == req[1].pc = "exit" /\ req[1].op = op

StoreUnchanged ==
    /\ activities = before.activities
    /\ participants = before.participants

\* C1: when requests are served one at a time, no activity ever has more
\* Participant rows than its max_participants
CapacityRespected ==
    \A a \in activities : Count(participants, a.name) <= a.max_participants

\* a signup has just filled the Math Club to its max_participants
CapacityReached ==
    /\ Answered("signup") /\ req[1].status = StatusOk
    /\ req[1].activity_name = MathClub
    /\ Count(participants, MathClub) = Capacity(activities, MathClub)

\* C2: there is at most one Participant row for each (email, activity_name)
OneRowPerSignup ==
    \A p, q \in participants :
        p.email = q.email /\ p.activity_name = q.activity_name => p = q

\* C3: a signup for an existing activity by an email that is not registered
\* for it, with the count below max_participants, succeeds; a signup that
\* succeeds has inserted exactly one row, for its (email, activity_name),
\* and changed nothing else, and a listing then shows the email once in a
\* participants list one longer than before; a list request served right
\* after it returns that listing
SignupInsertsOneRow ==
    LET a == req[1].activity_name
        e == req[1].email
        inserted == participants \ before.participants
    IN  /\ Answered("signup")
             /\ Exists(before.activities, a)
             /\ ~Registered(before.participants, a, e)
             /\ Count(before.participants, a) < Capacity(before.activities, a)
           => req[1].status = StatusOk
        /\ Answered("signup") /\ req[1].status = StatusOk
           => /\ req[1].body = SignedUpMessage(e, a)
              /\ Exists(before.activities, a)
              /\ ~Registered(before.participants, a, e)
              /\ Count(before.participants, a) < Capacity(before.activities, a)
              /\ before.participants \subseteq participants
              /\ Cardinality(inserted) = 1
              /\ \A p \in inserted : p.email = e /\ p.activity_name = a
              /\ activities = before.activities
              /\ CopiesIn(e, Listed(activities, participants, a)) = 1
              /\ BagCardinality(Listed(activities, participants, a))
                    = BagCardinality(Listed(before.activities,
                                            before.participants, a)) + 1
        /\ Answered("list") /\ last.op = "signup" /\ last.status = StatusOk
           => /\ req[1].result = Listing(activities, participants)
              /\ \E entry \in req[1].result :
                    /\ entry.name = last.activity_name
                    /\ CopiesIn(last.email, entry.participants) = 1

\* the seeded Chess Club has taken a third student, and the listing served
\* right after the signup shows three emails
ChessClubListsThree ==
    /\ Answered("list")
    /\ last.op = "signup" /\ last.status = StatusOk
    /\ last.activity_name = ChessClub
    /\ \E entry \in req[1].result :
          /\ entry.name = ChessClub
          /\ BagCardinality(entry.participants) = 3
          /\ CopiesIn(last.email, entry.participants) = 1

\* C4: a signup by an email already registered for the activity raises 400
\* "Student is already signed up" and changes nothing, full or not
DuplicateSignupConflict ==
    Answered("signup")
        /\ Registered(before.participants, req[1].activity_name, req[1].email)
    => /\ req[1].status = StatusBadRequest
       /\ req[1].body = AlreadySignedUp
       /\ StoreUnchanged

\* a member of the full Math Club has signed up again
DuplicateWhileFull ==
    /\ Answered("signup")
    /\ Registered(before.participants, req[1].activity_name, req[1].email)
    /\ Count(before.participants, req[1].activity_name)
          >= Capacity(before.activities, req[1].activity_name)
    /\ req[1].body = AlreadySignedUp

\* C5: a signup for an existing activity by an email not registered for it
\* raises 400 "Activity is full" and inserts nothing when the count is at
\* least max_participants, and is not rejected as full when it is below
FullSignupRejected ==
    LET a == req[1].activity_name
    IN  Answered("signup")
            /\ Exists(before.activities, a)
            /\ ~Registered(before.participants, a, req[1].email)
        => IF Count(before.participants, a) >= Capacity(before.activities, a)
           THEN /\ req[1].status = StatusBadRequest
                /\ req[1].body = ActivityFull
                /\ StoreUnchanged
           ELSE req[1].body # ActivityFull

\* a student who is not a member was turned away from the full Math Club
TurnedAway ==
    /\ Answered("signup")
    /\ req[1].body = ActivityFull
    /\ ~Registered(before.participants, req[1].activity_name, req[1].email)
    /\ Count(before.participants, req[1].activity_name)
          = Capacity(before.activities, req[1].activity_name)

MissingActivityNotFound ==
    (Answered("signup") \/ Answered("unregister"))
        /\ ~Exists(before.activities, req[1].activity_name)
    => /\ req[1].status = StatusNotFound
       /\ req[1].body = ActivityNotFound
       /\ StoreUnchanged

\* an unregister from an activity that is not there was answered
UnregisterFromNowhere ==
    /\ Answered("unregister")
    /\ started
    /\ ~Exists(before.activities, req[1].activity_name)
    /\ req[1].status = StatusNotFound

\* C8: seeding an empty Activity table inserts the 9 activities and the 18
\* registrations of the catalog; seeding a store whose Activity table is not
\* empty changes nothing, even when no Participant row is left; seeding
\* twice gives what seeding once gives; and until the next request arrives
\* the store after a process start is the one seed_initial_data gives
SeedIdempotent ==
    LET store == [activities |-> activities, participants |-> participants]
        once == seed_initial_data(activities, participants)
        twice == seed_initial_data(once.activities, once.participants)
    IN  /\ twice = once
        /\ activities = {}
           => /\ Cardinality(once.activities) = Len(initial_activities)
              /\ Cardinality(once.activities) = 9
              /\ Cardinality(once.participants) = Len(initial_participants)
              /\ Cardinality(once.participants) = 18
        /\ activities # {}
           => /\ once = store
              /\ seed_initial_data(activities, {})
                    = [activities |-> activities, participants |-> {}]
        /\ last.op = "startup" /\ Idle
           => store = IF before.activities = {}
                      THEN seed_initial_data({}, {})
                      ELSE before

\* the process restarted on a store that requests had changed, a seeded
\* member of the Math Club having left it
RestartedOnChangedStore ==
    /\ last.op = "startup" /\ Idle
    /\ activities # {}
    /\ ~Registered(participants, MathClub, James)
    /\ before.participants = participants

\* C9: nothing ties the capacity check of a signup to its insert: a signup
\* that has passed the check inserts its row and succeeds whatever the count
\* has become, so that two concurrent signups for the last seat both succeed
\* (OverCapacity)
InsertIgnoresCount ==
    [][\A r \in Slots :
          req[r].op = "signup" /\ req[r].pc = "add_commit"
              /\ req'[r] # req[r]
          => /\ req'[r].pc = "exit"
             /\ req'[r].status = StatusOk
             /\ Count(participants', req[r].activity_name)
                   = Count(participants, req[r].activity_name) + 1]_vars

\* two signups for the same activity by different emails both read a count
\* of max_participants - 1, both succeeded, and the activity has
\* max_participants + 1 rows
OverCapacity ==
    \E r, q \in Slots :
        /\ r # q
        /\ req[r].op = "signup" /\ req[q].op = "signup"
        /\ req[r].pc = "exit" /\ req[q].pc = "exit"
        /\ req[r].status = StatusOk /\ req[q].status = StatusOk
        /\ req[r].activity_name = req[q].activity_name
        /\ req[r].email # req[q].email
        /\ req[r].participants_count = req[r].activity[1].max_participants - 1
        /\ req[q].participants_count = req[q].activity[1].max_participants - 1
        /\ Count(participants, req[r].activity_name)
              = req[r].activity[1].max_participants + 1

====
